---------------------------- MODULE Spec2Model ----------------------------
(***************************************************************************)
(* A model of models.py: the HyperParams configuration record and its      *)
(* update() parser, the nearest-neighbour upsample2d primitive, and the    *)
(* construction and forward pass of the five network variants, followed    *)
(* at the level of tensor shapes.                                          *)
(*                                                                         *)
(* Three specifications share the variables:                               *)
(*   SpecHps  a default HyperParams receiving update(hps_string) calls     *)
(*   SpecUp   upsample2d applied to small 4-D tensors                      *)
(*   SpecNet  a configuration, a network built from it, forward calls      *)
(***************************************************************************)
EXTENDS Integers, Sequences, FiniteSets, TLC

VARIABLES
    hps,    \* the HyperParams instance: a record of its slots
    err,    \* exception raised by the last update() call, or "none"
    last,   \* the hps_string passed to the last update() call
    net,    \* the network instance (variant, layers, filters, global_step)
    inp,    \* the tensor shape passed to the last forward() call
    out,    \* what the last forward() call returned (a shape) or raised
    trace,  \* the steps the last UNet.forward() went through
    x,      \* the tensor the caller passes to upsample2d
    y       \* the tensor upsample2d returned

vars == <<hps, err, last, net, inp, out, trace, x, y>>

(***************************************************************************)
(* Bounds of the model.                                                    *)
(***************************************************************************)
MaxDim == 3         \* largest extent of one tensor dimension (upsample2d)
MaxElems == 6       \* largest number of elements of an input tensor
MaxVal == 1         \* tensor elements are drawn from 0..MaxVal

(***************************************************************************)
(* 4-D tensors are nested sequences t[b][c][i][j] (1-based in the model,   *)
(* 0-based in the code).  Every dimension has at least one element.        *)
(***************************************************************************)
size(t) == <<Len(t), Len(t[1]), Len(t[1][1]), Len(t[1][1][1])>>

\* x[:, :, r, :]  (r is the 0-based index of the code): a 3-D tensor [b][c][j]
SelectRow(t, r) ==
    [b \in 1..Len(t) |-> [c \in 1..Len(t[1]) |-> t[b][c][r + 1]]]

\* x[:, :, :, r]: a 3-D tensor [b][c][i]
SelectCol(t, r) ==
    [b \in 1..Len(t) |->
        [c \in 1..Len(t[1]) |->
            [i \in 1..Len(t[1][1]) |-> t[b][c][i][r + 1]]]]

\* torch.stack(ts, 2): the list index becomes dimension 2
Stack2(ts) ==
    [b \in 1..Len(ts[1]) |->
        [c \in 1..Len(ts[1][1]) |->
            [i \in 1..Len(ts) |->
                [j \in 1..Len(ts[1][1][1]) |-> ts[i][b][c][j]]]]]

\* torch.stack(ts, 3): the list index becomes dimension 3
Stack3(ts) ==
    [b \in 1..Len(ts[1]) |->
        [c \in 1..Len(ts[1][1]) |->
            [i \in 1..Len(ts[1][1][1]) |->
                [j \in 1..Len(ts) |-> ts[j][b][c][i]]]]]

\* x.repeat(1, 1, 2, 2), the call the code comments out: it tiles the tensor
upsample2d_repeat(t) ==
    LET H == size(t)[3]
        W == size(t)[4]
    IN  [b \in 1..Len(t) |->
            [c \in 1..Len(t[1]) |->
                [i \in 1..(2 * H) |->
                    [j \in 1..(2 * W) |->
                        t[b][c][((i - 1) % H) + 1][((j - 1) % W) + 1]]]]]

upsample2d(t) ==
    LET x1 == Stack2([i \in 1..(size(t)[3] * 2) |-> SelectRow(t, (i - 1) \div 2)])
        x2 == Stack3([i \in 1..(size(x1)[4] * 2) |-> SelectCol(x1, (i - 1) \div 2)])
    IN  x2

Shapes4 ==
    {s \in (1..MaxDim) \X (1..MaxDim) \X (1..MaxDim) \X (1..MaxDim) :
        s[1] * s[2] * s[3] * s[4] <= MaxElems}

TensorsOf(s) ==
    [1..s[1] -> [1..s[2] -> [1..s[3] -> [1..s[4] -> 0..MaxVal]]]]

NoTensor == [ok |-> FALSE, t |-> <<>>]

Idle == <<>>

InitUp ==
    /\ \E s \in Shapes4 : x \in TensorsOf(s)
    /\ y = NoTensor
    /\ hps = Idle /\ err = "none" /\ last = Idle
    /\ net = Idle /\ inp = Idle /\ out = Idle /\ trace = Idle

\* y = upsample2d(x): the callee rebinds its local name, the caller's x stays
Upsample ==
    /\ y' = [ok |-> TRUE, t |-> upsample2d(x)]
    /\ UNCHANGED <<x, hps, err, last, net, inp, out, trace>>

NextUp == Upsample

SpecUp == InitUp /\ [][NextUp]_vars

(***************************************************************************)
(* C2: upsample2d(x) has shape (B, C, 2H, 2W) and                          *)
(* output[b, c, 2i+di, 2j+dj] = x[b, c, i, j] for all di, dj in {0, 1}:    *)
(* every source pixel fills one contiguous 2x2 block, and x is the tensor  *)
(* it was before the call.                                                 *)
(***************************************************************************)
C2_Upsample ==
    y.ok =>
        /\ size(y.t) = <<size(x)[1], size(x)[2], 2 * size(x)[3], 2 * size(x)[4]>>
        /\ \A b \in 1..size(x)[1], c \in 1..size(x)[2] :
             \A i \in 0..(size(x)[3] - 1), j \in 0..(size(x)[4] - 1) :
               \A di \in {0, 1}, dj \in {0, 1} :
                 y.t[b][c][2 * i + di + 1][2 * j + dj + 1] = x[b][c][i + 1][j + 1]

\* an upsampled tensor with several rows, columns and distinct pixels
C2_Witness ==
    /\ y.ok
    /\ size(x)[3] >= 2 /\ size(x)[4] >= 2
    /\ x[1][1][1][1] # x[1][1][2][2]

(***************************************************************************)
(* Python strings are sequences of one-character strings, so that split,   *)
(* int() and float() are computed on the text.                             *)
(***************************************************************************)
\* attribute names: the sixteen attr.ib slots, the class-level total_classes,
\* the n_classes property, and a name the class does not have
k_classes ==
    <<"c", "l", "a", "s", "s", "e", "s">>
k_net ==
    <<"n", "e", "t">>
k_n_channels ==
    <<"n", "_", "c", "h", "a", "n", "n", "e", "l", "s">>
k_thresholds ==
    <<"t", "h", "r", "e", "s", "h", "o", "l", "d", "s">>
k_patch_inner ==
    <<"p", "a", "t", "c", "h", "_", "i", "n", "n", "e", "r">>
k_patch_border ==
    <<"p", "a", "t", "c", "h", "_", "b", "o", "r", "d", "e", "r">>
k_augment_rotations ==
    <<"a", "u", "g", "m", "e", "n", "t", "_", "r", "o", "t", "a", "t", "i", "o", "n", "s">>
k_augment_flips ==
    <<"a", "u", "g", "m", "e", "n", "t", "_", "f", "l", "i", "p", "s">>
k_validation_square ==
    <<"v", "a", "l", "i", "d", "a", "t", "i", "o", "n", "_", "s", "q", "u", "a", "r", "e">>
k_dropout_keep_prob ==
    <<"d", "r", "o", "p", "o", "u", "t", "_", "k", "e", "e", "p", "_", "p", "r", "o", "b">>
k_dice_loss ==
    <<"d", "i", "c", "e", "_", "l", "o", "s", "s">>
k_filters_base ==
    <<"f", "i", "l", "t", "e", "r", "s", "_", "b", "a", "s", "e">>
k_n_epochs ==
    <<"n", "_", "e", "p", "o", "c", "h", "s">>
k_oversample ==
    <<"o", "v", "e", "r", "s", "a", "m", "p", "l", "e">>
k_lr ==
    <<"l", "r">>
k_batch_size ==
    <<"b", "a", "t", "c", "h", "_", "s", "i", "z", "e">>
k_total_classes ==
    <<"t", "o", "t", "a", "l", "_", "c", "l", "a", "s", "s", "e", "s">>
k_n_classes ==
    <<"n", "_", "c", "l", "a", "s", "s", "e", "s">>
k_foo ==
    <<"f", "o", "o">>
\* variant names and the literals used as override values
s_DefaultNet ==
    <<"D", "e", "f", "a", "u", "l", "t", "N", "e", "t">>
s_MiniNet ==
    <<"M", "i", "n", "i", "N", "e", "t">>
s_OldNet ==
    <<"O", "l", "d", "N", "e", "t">>
s_SmallNet ==
    <<"S", "m", "a", "l", "l", "N", "e", "t">>
s_SmallUNet ==
    <<"S", "m", "a", "l", "l", "U", "N", "e", "t">>
s_UNet ==
    <<"U", "N", "e", "t">>
v_0_1_2 ==
    <<"0", "-", "1", "-", "2">>
v_64 ==
    <<"6", "4">>
v_0_5 ==
    <<"0", ".", "5">>

\* values carry their Python type
IntV(n) == [t |-> "int", v |-> n]
FloatV(m, e) == [t |-> "float", m |-> m, e |-> e]     \* the number m / 10^e
StrV(s) == [t |-> "str", s |-> s]
ListV(l) == [t |-> "list", l |-> l]

total_classes == 10

\* HyperParams(): the attr.ib defaults, a record keyed by the slot names
HyperParams ==
    [classes |-> ListV([i \in 1..10 |-> i - 1]),
     net |-> StrV(s_DefaultNet),
     n_channels |-> IntV(20),
     thresholds |-> ListV(<<FloatV(2, 1), FloatV(3, 1), FloatV(4, 1),
                           FloatV(5, 1), FloatV(6, 1)>>),
     patch_inner |-> IntV(64),
     patch_border |-> IntV(16),
     augment_rotations |-> IntV(1),
     augment_flips |-> IntV(1),
     validation_square |-> IntV(400),
     dropout_keep_prob |-> FloatV(0, 0),
     dice_loss |-> IntV(0),
     filters_base |-> IntV(32),
     n_epochs |-> IntV(30),
     oversample |-> FloatV(0, 0),
     lr |-> FloatV(1, 4),
     batch_size |-> IntV(128)]

\* the characters of an attribute name
Text(a) ==
    CASE a = "classes" -> k_classes
      [] a = "net" -> k_net
      [] a = "n_channels" -> k_n_channels
      [] a = "thresholds" -> k_thresholds
      [] a = "patch_inner" -> k_patch_inner
      [] a = "patch_border" -> k_patch_border
      [] a = "augment_rotations" -> k_augment_rotations
      [] a = "augment_flips" -> k_augment_flips
      [] a = "validation_square" -> k_validation_square
      [] a = "dropout_keep_prob" -> k_dropout_keep_prob
      [] a = "dice_loss" -> k_dice_loss
      [] a = "filters_base" -> k_filters_base
      [] a = "n_epochs" -> k_n_epochs
      [] a = "oversample" -> k_oversample
      [] a = "lr" -> k_lr
      [] a = "batch_size" -> k_batch_size
      [] a = "total_classes" -> k_total_classes
      [] a = "n_classes" -> k_n_classes
      [] a = "foo" -> k_foo

\* the names update() is given in the model: the slots and three others
Names == DOMAIN HyperParams \cup {"total_classes", "n_classes", "foo"}

\* the attribute name spelt by the characters k
NameOf(k) == CHOOSE a \in Names : Text(a) = k

\* the n_classes property, caching the class count instead of recomputing it
n_classes_cached(h) == total_classes

\* the n_classes property: len(self.classes)
n_classes(h) == Len(h.classes.l)

(***************************************************************************)
(* str.split, int() and float().  The strings the model passes hold no     *)
(* whitespace, underscore or exponent, so int() and float() are modelled   *)
(* on an optional sign followed by decimal digits (and one point).         *)
(***************************************************************************)
Contains(s, ch) == \E i \in 1..Len(s) : s[i] = ch

IndexOf(s, ch) == CHOOSE i \in 1..Len(s) : s[i] = ch /\ \A j \in 1..(i - 1) : s[j] # ch

RECURSIVE split(_, _)
split(s, sep) ==
    IF ~Contains(s, sep) THEN <<s>>
    ELSE LET i == IndexOf(s, sep)
         IN  <<SubSeq(s, 1, i - 1)>> \o split(SubSeq(s, i + 1, Len(s)), sep)

DigitChars == {"0", "1", "2", "3", "4", "5", "6", "7", "8", "9"}

DigitVal(ch) ==
    CASE ch = "0" -> 0 [] ch = "1" -> 1 [] ch = "2" -> 2 [] ch = "3" -> 3
      [] ch = "4" -> 4 [] ch = "5" -> 5 [] ch = "6" -> 6 [] ch = "7" -> 7
      [] ch = "8" -> 8 [] ch = "9" -> 9

AllDigits(s) == \A i \in 1..Len(s) : s[i] \in DigitChars

RECURSIVE DigitsVal(_)
DigitsVal(s) ==
    IF s = <<>> THEN 0
    ELSE 10 * DigitsVal(SubSeq(s, 1, Len(s) - 1)) + DigitVal(s[Len(s)])

HasSign(s) == s # <<>> /\ s[1] \in {"+", "-"}
Unsigned(s) == IF HasSign(s) THEN Tail(s) ELSE s
Signed(s, n) == IF HasSign(s) /\ s[1] = "-" THEN 0 - n ELSE n

\* int(s) succeeds
IsInt(s) == Unsigned(s) # <<>> /\ AllDigits(Unsigned(s))
\* int(s)
IntOf(s) == Signed(s, DigitsVal(Unsigned(s)))

\* float(s) succeeds, for an s that holds a '.'
IsFloat(s) ==
    LET u == Unsigned(s)
        p == split(u, ".")
    IN  /\ Len(p) = 2
        /\ AllDigits(p[1]) /\ AllDigits(p[2])
        /\ Len(p[1]) + Len(p[2]) >= 1

RECURSIVE Normal(_, _)
Normal(m, e) ==
    IF e > 0 /\ m % 10 = 0 THEN Normal(m \div 10, e - 1) ELSE FloatV(m, e)

\* float(s), for an s that holds a '.'
FloatOf(s) ==
    LET p == split(Unsigned(s), ".")
    IN  Normal(Signed(s, DigitsVal(p[1] \o p[2])), Len(p[2]))

(***************************************************************************)
(* HyperParams.update                                                      *)
(***************************************************************************)
Raised(h, e) == [hps |-> h, err |-> e]

\* lines 42-47: the coerced value, or the ValueError of int() / float()
Coerce(k, v) ==
    IF k = k_classes
    THEN LET xs == split(v, "-")
         IN  IF \A i \in 1..Len(xs) : IsInt(xs[i])
             THEN [ok |-> TRUE, v |-> ListV([i \in 1..Len(xs) |-> IntOf(xs[i])])]
             ELSE [ok |-> FALSE, v |-> StrV(v)]
    ELSE IF Contains(v, ".")
    THEN IF IsFloat(v)
         THEN [ok |-> TRUE, v |-> FloatOf(v)]
         ELSE [ok |-> FALSE, v |-> StrV(v)]
    ELSE IF k # k_net
    THEN IF IsInt(v)
         THEN [ok |-> TRUE, v |-> IntV(IntOf(v))]
         ELSE [ok |-> FALSE, v |-> StrV(v)]
    ELSE [ok |-> TRUE, v |-> StrV(v)]

\* setattr on a class without __slots__: any name becomes an attribute
setattr_dict(h, k, v) ==
    Raised([a \in DOMAIN h \cup {NameOf(k)} |-> IF Text(a) = k THEN v ELSE h[a]],
           "none")

\* setattr(self, k, v) on the slotted class: only an attr.ib slot can be set
setattr(h, k, v) ==
    IF \E a \in DOMAIN h : Text(a) = k
    THEN Raised([h EXCEPT ![NameOf(k)] = v], "none")
    ELSE Raised(h, "AttributeError")

\* the for loop of update, from the i-th pair on
RECURSIVE UpdatePairs(_, _, _)
UpdatePairs(h, pairs, i) ==
    IF i > Len(pairs) THEN Raised(h, "none")
    ELSE LET kv == split(pairs[i], "=")
         IN  IF Len(kv) # 2 THEN Raised(h, "ValueError")
             ELSE LET c == Coerce(kv[1], kv[2])
                  IN  IF ~c.ok THEN Raised(h, "ValueError")
                      ELSE LET r == setattr(h, kv[1], c.v)
                           IN  IF r.err # "none" THEN r
                               ELSE UpdatePairs(r.hps, pairs, i + 1)

update(h, hps_string) ==
    IF hps_string = <<>> THEN Raised(h, "none")
    ELSE UpdatePairs(h, split(hps_string, ","), 1)

\* getattr(self, k): a slot, the class attribute, the property, or nothing
getattr(h, k) ==
    IF \E a \in DOMAIN h : Text(a) = k THEN [ok |-> TRUE, v |-> h[NameOf(k)]]
    ELSE IF k = k_total_classes THEN [ok |-> TRUE, v |-> IntV(total_classes)]
    ELSE IF k = k_n_classes THEN [ok |-> TRUE, v |-> IntV(n_classes(h))]
    ELSE [ok |-> FALSE, v |-> IntV(0)]

(***************************************************************************)
(* The override strings update() is called with: comma-joined pairs of at  *)
(* most MaxLen characters in all.  A pair is key=value or, malformed, a    *)
(* bare key.                                                               *)
(***************************************************************************)
MaxLen == 16

Pair(k, v) == k \o <<"=">> \o v

Pairs ==
    {Pair(k_classes, v_0_1_2), Pair(k_classes, v_64),
     Pair(k_net, s_UNet), Pair(k_net, v_0_5),
     Pair(k_lr, v_0_5), Pair(k_lr, s_UNet), Pair(k_batch_size, v_64),
     Pair(k_foo, v_64), Pair(k_total_classes, v_64), k_lr}

RECURSIVE Joined(_)
Joined(n) ==
    IF n = 0 THEN {p \in Pairs : Len(p) <= MaxLen}
    ELSE LET S == Joined(n - 1)
         IN  S \cup {sp[1] \o <<",">> \o sp[2] :
                      sp \in {q \in S \X Pairs : Len(q[1]) + 1 + Len(q[2]) <= MaxLen}}

HpsStrings == {<<>>} \cup Joined(MaxLen \div 3)

InitHps ==
    /\ hps = HyperParams
    /\ err = "none"
    /\ last = <<>>
    /\ net = Idle /\ inp = Idle /\ out = Idle /\ trace = Idle
    /\ x = Idle /\ y = NoTensor

Update ==
    \E s \in HpsStrings :
        LET r == update(hps, s)
        IN  /\ hps' = r.hps
            /\ err' = r.err
            /\ last' = s
            /\ UNCHANGED <<net, inp, out, trace, x, y>>

NextHps == Update

SpecHps == InitHps /\ [][NextHps]_vars

(***************************************************************************)
(* What the claims about update() speak of: the pairs of the last call.    *)
(***************************************************************************)
Declared == DOMAIN HyperParams
DeclaredKeys == {Text(a) : a \in Declared}

Registered == {s_MiniNet, s_OldNet, s_SmallNet, s_SmallUNet, s_UNet}

PairsOf(s) == IF s = <<>> THEN <<>> ELSE split(s, ",")

KeyOf(p) == split(p, "=")[1]
ValOf(p) == split(p, "=")[2]

\* key=value with a value its coercion parses
WellFormed(p) == Len(split(p, "=")) = 2 /\ Coerce(KeyOf(p), ValOf(p)).ok

\* the pairs of the last call that assign key k
Assigning(k) ==
    {i \in 1..Len(PairsOf(last)) :
        Len(split(PairsOf(last)[i], "=")) = 2 /\ KeyOf(PairsOf(last)[i]) = k}

Max(S) == CHOOSE m \in S : \A n \in S : n <= m

\* the value of the last pair of the last call that assigns k
Given(k) == ValOf(PairsOf(last)[Max(Assigning(k))])

\* the first pair that is well formed and names no declared field, all pairs
\* before it being well formed and naming declared fields; 0 if there is none
FirstUndeclared ==
    LET ps == PairsOf(last)
        S == {i \in 1..Len(ps) :
                /\ WellFormed(ps[i]) /\ KeyOf(ps[i]) \notin DeclaredKeys
                /\ \A j \in 1..(i - 1) :
                     WellFormed(ps[j]) /\ KeyOf(ps[j]) \in DeclaredKeys}
    IN  IF S = {} THEN 0 ELSE Max(S)

CountChar(s, ch) == Cardinality({i \in 1..Len(s) : s[i] = ch})

\* the coercion rules as the claim words them
ClaimedValue(k, v) ==
    IF k = k_classes
    THEN ListV([i \in 1..Len(split(v, "-")) |-> IntOf(split(v, "-")[i])])
    ELSE IF k = k_net THEN StrV(v)
    ELSE IF Contains(v, ".") THEN FloatOf(v)
    ELSE IntV(IntOf(v))

(***************************************************************************)
(* C3 (as claimed): update stores, for 'classes', the list of integers     *)
(* split on '-'; for 'net', the given string unchanged whatever it holds;  *)
(* for any other key a float if the value holds a decimal point and an     *)
(* integer otherwise.                                                      *)
(***************************************************************************)
C3_Claim ==
    /\ \A a \in Declared :
         (err = "none" /\ Assigning(Text(a)) # {}) =>
             hps[a] = ClaimedValue(Text(a), Given(Text(a)))
    /\ (Len(PairsOf(last)) = 1 /\ Assigning(k_net) # {}) =>
         (err = "none" /\ hps.net = StrV(Given(k_net)))

(***************************************************************************)
(* C4 (as claimed): an update call that fails with a parse error applies   *)
(* none of its pairs: every field keeps the value it had before the call.  *)
(***************************************************************************)
C4_Claim == [][err' = "ValueError" => hps' = hps]_vars

(***************************************************************************)
(* C5 (as claimed): update with well-formed pairs, one of which names no   *)
(* declared field, completes without error and the configuration then has  *)
(* an attribute of that name holding the coerced value.                    *)
(***************************************************************************)
C5_Claim ==
    \A k \in {k_foo, k_total_classes} :
        ((\A i \in 1..Len(PairsOf(last)) : WellFormed(PairsOf(last)[i]))
            /\ Assigning(k) # {}) =>
        /\ err = "none"
        /\ getattr(hps, k) = [ok |-> TRUE, v |-> Coerce(k, Given(k)).v]

(***************************************************************************)
(* C5 (amended): update reaching a well-formed pair whose key is not a     *)
(* declared field raises AttributeError; no attribute of that name is      *)
(* created: the instance keeps exactly its declared fields, total_classes  *)
(* still reads the class-level 10 and any other such name stays absent.    *)
(***************************************************************************)
C5_Amended ==
    FirstUndeclared # 0 =>
        LET k == KeyOf(PairsOf(last)[FirstUndeclared])
        IN  /\ err = "AttributeError"
            /\ DOMAIN hps = Declared
            /\ getattr(hps, k) = getattr(HyperParams, k)
            /\ getattr(hps, k_total_classes).v = IntV(total_classes)
            /\ ~getattr(hps, k_foo).ok

\* an update that set a declared field and then met an undeclared key
C5_Witness ==
    /\ FirstUndeclared = 2
    /\ err = "AttributeError"
    /\ KeyOf(PairsOf(last)[1]) = k_lr
    /\ hps.lr = FloatV(5, 1)

(***************************************************************************)
(* C6: in every reachable configuration n_classes equals the length of    *)
(* the current classes list; after a successful update overriding classes  *)
(* the list holds the dash-separated integers given, and after             *)
(* update("classes=0-1-2") classes = [0,1,2] and n_classes = 3.            *)
(***************************************************************************)
C6_NClasses ==
    /\ hps.classes.t = "list"
    /\ n_classes(hps) = Cardinality(DOMAIN hps.classes.l)
    /\ (err = "none" /\ Assigning(k_classes) # {}) =>
         /\ n_classes(hps) = CountChar(Given(k_classes), "-") + 1
         /\ hps.classes = ClaimedValue(k_classes, Given(k_classes))
    /\ (err = "none" /\ last = Pair(k_classes, v_0_1_2)) =>
         /\ hps.classes.l = <<0, 1, 2>>
         /\ n_classes(hps) = 3

\* the state after update("classes=0-1-2")
C6_Witness ==
    /\ err = "none"
    /\ last = Pair(k_classes, v_0_1_2)
    /\ n_classes(hps) = 3

(***************************************************************************)
(* C7 (as claimed): in every reachable configuration the net field names   *)
(* one of the variants MiniNet, OldNet, SmallNet, SmallUNet, UNet.         *)
(***************************************************************************)
C7_Claim == hps.net \in {StrV(s) : s \in Registered}

(***************************************************************************)
(* Networks, followed at the level of tensor shapes.  A shape is           *)
(* <<batch, channels, height, width>>; an operation torch rejects gives    *)
(* Failed, and every later operation of the same forward call is skipped.  *)
(***************************************************************************)
MaxChannels == 2    \* n_channels ranges over 1..MaxChannels
MaxClasses == 2     \* classes ranges over [0], [0,1], ... of this length
MaxInner == 16      \* patch_inner ranges over 1..MaxInner
MaxBorder == 2      \* patch_border ranges over 0..MaxBorder
MaxFilters == 1     \* filters_base ranges over 1..MaxFilters and 32
MaxBatch == 2       \* forward is called on batches of 1..MaxBatch patches
MaxStep == 1        \* step counter values forward is compared under

Shape(b, c, h, w) == [ok |-> TRUE, s |-> <<b, c, h, w>>]
Failed == [ok |-> FALSE, s |-> <<>>]
NoShape == [ok |-> FALSE, s |-> <<0>>]

Min2(a, b) == IF a < b THEN a ELSE b
Max2(a, b) == IF a > b THEN a ELSE b

\* nn.Conv2d(in_, out, kernel, padding=pad)
Conv2d(in_, out_, kernel, pad) == [cin |-> in_, cout |-> out_, k |-> kernel, pad |-> pad]

\* calling a Conv2d layer: stride 1, the input's channels must be the layer's
Apply(layer, t) ==
    IF ~t.ok \/ t.s[2] # layer.cin THEN Failed
    ELSE LET h == t.s[3] + 2 * layer.pad - layer.k + 1
             w == t.s[4] + 2 * layer.pad - layer.k + 1
         IN  IF h < 1 \/ w < 1 THEN Failed ELSE Shape(t.s[1], layer.cout, h, w)

\* F.relu and F.sigmoid act elementwise
relu(t) == t
sigmoid(t) == t

\* nn.MaxPool2d(2, 2): floor division, an empty result is rejected
pool(t) ==
    IF ~t.ok \/ t.s[3] \div 2 < 1 \/ t.s[4] \div 2 < 1 THEN Failed
    ELSE Shape(t.s[1], t.s[2], t.s[3] \div 2, t.s[4] \div 2)

\* torch.cat([a, b], 1): all dimensions but the channels must agree
cat(a, b) ==
    IF ~a.ok \/ ~b.ok THEN Failed
    ELSE IF a.s[1] # b.s[1] \/ a.s[3] # b.s[3] \/ a.s[4] # b.s[4] THEN Failed
    ELSE Shape(a.s[1], a.s[2] + b.s[2], a.s[3], a.s[4])

\* the shape of upsample2d(t)
upsample2d_size(t) ==
    IF ~t.ok THEN Failed ELSE Shape(t.s[1], t.s[2], t.s[3] * 2, t.s[4] * 2)

\* the length of range(n)[b:-b] for b >= 0: -0 is 0, so b = 0 selects nothing
SliceLen(n, b) ==
    LET start == Min2(b, n)
        stop == IF b = 0 THEN 0 ELSE Max2(n - b, 0)
    IN  Max2(stop - start, 0)

\* x[:, :, b:-b, b:-b]
crop(t, b) ==
    IF ~t.ok THEN Failed
    ELSE Shape(t.s[1], t.s[2], SliceLen(t.s[3], b), SliceLen(t.s[4], b))

\* the attribute names conv<i>, conv_down_<i>_<j>, conv_up_<i>_<j>, conv_final
conv(i) == <<"conv", i, 0>>
conv_down(i, j) == <<"conv_down", i, j>>
conv_up(i, j) == <<"conv_up", i, j>>
conv_final == <<"conv_final", 0, 0>>

\* BaseNet.__init__ and what the subclass adds: global_step is a zeroed buffer
BaseNet(variant, layers, filters) ==
    [variant |-> variant, layers |-> layers, filters |-> filters, global_step |-> 0]

NoNet == BaseNet("none", <<>>, <<>>)

MiniNet(h) ==
    BaseNet("MiniNet",
        (conv(1) :> Conv2d(h.n_channels.v, 4, 1, 0))
        @@ (conv(2) :> Conv2d(4, 8, 3, 1))
        @@ (conv(3) :> Conv2d(8, n_classes(h), 3, 1)), <<>>)

MiniNet_forward(n, h, t) ==
    LET x1 == relu(Apply(n.layers[conv(1)], t))
        x2 == relu(Apply(n.layers[conv(2)], x1))
        x3 == Apply(n.layers[conv(3)], x2)
        b == h.patch_border.v
    IN  sigmoid(crop(x3, b))

OldNet(h) ==
    BaseNet("OldNet",
        (conv(1) :> Conv2d(h.n_channels.v, 64, 5, 2))
        @@ (conv(2) :> Conv2d(64, 64, 5, 2))
        @@ (conv(3) :> Conv2d(64, 64, 5, 2))
        @@ (conv(4) :> Conv2d(64, n_classes(h), 7, 3)), <<>>)

OldNet_forward(n, h, t) ==
    LET x1 == relu(Apply(n.layers[conv(1)], t))
        x2 == relu(Apply(n.layers[conv(2)], x1))
        x3 == relu(Apply(n.layers[conv(3)], x2))
        x4 == Apply(n.layers[conv(4)], x3)
        b == h.patch_border.v
    IN  sigmoid(crop(x4, b))

SmallNet(h) ==
    BaseNet("SmallNet",
        (conv(1) :> Conv2d(h.n_channels.v, 64, 3, 1))
        @@ (conv(2) :> Conv2d(64, 64, 3, 1))
        @@ (conv(3) :> Conv2d(64, 64, 3, 1))
        @@ (conv(4) :> Conv2d(64, 128, 3, 1))
        @@ (conv(5) :> Conv2d(128, n_classes(h), 3, 1)), <<>>)

SmallNet_forward(n, h, t) ==
    LET x1 == relu(Apply(n.layers[conv(1)], t))
        x2 == relu(Apply(n.layers[conv(2)], x1))
        x3 == relu(Apply(n.layers[conv(3)], x2))
        x4 == relu(Apply(n.layers[conv(4)], x3))
        x5 == Apply(n.layers[conv(5)], x4)
        b == h.patch_border.v
    IN  sigmoid(crop(x5, b))

SmallUNet(h) ==
    BaseNet("SmallUNet",
        (conv(1) :> Conv2d(h.n_channels.v, 32, 3, 1))
        @@ (conv(2) :> Conv2d(32, 32, 3, 1))
        @@ (conv(3) :> Conv2d(32, 64, 3, 1))
        @@ (conv(4) :> Conv2d(64, 64, 3, 1))
        @@ (conv(5) :> Conv2d(64, 32, 3, 1))
        @@ (conv(6) :> Conv2d(64, 32, 3, 1))
        @@ (conv(7) :> Conv2d(32, n_classes(h), 3, 1)), <<>>)

SmallUNet_forward(n, h, t) ==
    LET xa == relu(Apply(n.layers[conv(1)], t))
        xb == relu(Apply(n.layers[conv(2)], xa))
        x1a == pool(xb)
        x1b == relu(Apply(n.layers[conv(3)], x1a))
        x1c == relu(Apply(n.layers[conv(4)], x1b))
        x1d == relu(Apply(n.layers[conv(5)], x1c))
        x1e == upsample2d_size(x1d)
        xc == cat(xb, x1e)
        xd == relu(Apply(n.layers[conv(6)], xc))
        xe == Apply(n.layers[conv(7)], xd)
        b == h.patch_border.v
    IN  sigmoid(crop(xe, b))

(***************************************************************************)
(* UNet                                                                    *)
(***************************************************************************)
conv3(in_, out_) == Conv2d(in_, out_, 3, 1)

\* self.filters
UNet_filters(b) == <<b, b * 2, b * 4, b * 8, b * 16>>

\* one round of the construction loop, the first up convolution sized for a
\* skip tensor as wide as the deeper one
UNet_level_same_width(h, filters, i) ==
    LET nf == filters[i + 1]
        low_nf == IF i = 0 THEN h.n_channels.v ELSE filters[i]
        down == (conv_down(i, 1) :> conv3(low_nf, nf))
                @@ (conv_down(i, 2) :> conv3(nf, nf))
    IN  IF i # 0
        THEN down @@ (conv_up(i, 1) :> conv3(nf + nf, low_nf))
                  @@ (conv_up(i, 2) :> conv3(low_nf, low_nf))
        ELSE down

\* one round of the construction loop: the layers of level i (filters is
\* 1-based here, so the code's filters[i] is filters[i + 1])
UNet_level(h, filters, i) ==
    LET nf == filters[i + 1]
        low_nf == IF i = 0 THEN h.n_channels.v ELSE filters[i]
        down == (conv_down(i, 1) :> conv3(low_nf, nf))
                @@ (conv_down(i, 2) :> conv3(nf, nf))
    IN  IF i # 0
        THEN down @@ (conv_up(i, 1) :> conv3(low_nf + nf, low_nf))
                  @@ (conv_up(i, 2) :> conv3(low_nf, low_nf))
        ELSE down

\* the construction loop from level i on
RECURSIVE UNet_levels(_, _, _)
UNet_levels(h, filters, i) ==
    IF i >= Len(filters) THEN <<>>
    ELSE UNet_level(h, filters, i) @@ UNet_levels(h, filters, i + 1)

UNet(h) ==
    LET filters == UNet_filters(h.filters_base.v)
    IN  BaseNet("UNet",
            UNet_levels(h, filters, 0)
            @@ (conv_final :> Conv2d(filters[1], n_classes(h), 1, 0)),
            filters)

\* one entry of the record of a forward call: an encoder level ("down") or a
\* decoder step ("up") with the tensors it met
Step(phase, i, pooled, up, skip, joined, cin, res) ==
    [phase |-> phase, i |-> i, pooled |-> pooled, up |-> up, skip |-> skip,
     joined |-> joined, cin |-> cin, res |-> res]

\* the encoder loop from level i on; xs holds the outputs of the levels before
RECURSIVE UNet_encode(_, _, _, _, _)
UNet_encode(n, t, i, xs, tr) ==
    IF i >= Len(n.filters) THEN [xs |-> xs, trace |-> tr, ok |-> TRUE]
    ELSE LET x0 == IF xs # <<>> THEN pool(xs[Len(xs)]) ELSE t
             x1 == relu(Apply(n.layers[conv_down(i, 1)], x0))
             x2 == relu(Apply(n.layers[conv_down(i, 2)], x1))
             st == Step("down", i, xs # <<>>, Failed, Failed, Failed,
                        n.layers[conv_down(i, 1)].cin, x2)
         IN  IF ~x2.ok THEN [xs |-> xs, trace |-> Append(tr, st), ok |-> FALSE]
             ELSE UNet_encode(n, t, i + 1, Append(xs, x2), Append(tr, st))

\* the skip tensor taken from the encoder level of the decoder step itself
x_skip_same_level(xs, i) == xs[i + 1]

\* x_skip = xs[i - 1]  (xs is 1-based here)
x_skip(xs, i) == xs[i]

\* the decoder loop from step i down to 1
RECURSIVE UNet_decode(_, _, _, _, _)
UNet_decode(n, x_out, i, xs, tr) ==
    IF i < 1 THEN [x_out |-> x_out, trace |-> tr]
    ELSE LET up == upsample2d_size(x_out)
             skip == x_skip(xs, i)
             joined == cat(up, skip)
             x1 == relu(Apply(n.layers[conv_up(i, 1)], joined))
             x2 == relu(Apply(n.layers[conv_up(i, 2)], x1))
             st == Step("up", i, FALSE, up, skip, joined,
                        n.layers[conv_up(i, 1)].cin, x2)
         IN  IF ~x2.ok THEN [x_out |-> Failed, trace |-> Append(tr, st)]
             ELSE UNet_decode(n, x2, i - 1, xs, Append(tr, st))

UNet_forward(n, h, t) ==
    LET enc == UNet_encode(n, t, 0, <<>>, <<>>)
    IN  IF ~enc.ok THEN [out |-> Failed, trace |-> enc.trace]
        ELSE LET dec == UNet_decode(n, enc.xs[Len(enc.xs)], Len(n.filters) - 1,
                                    enc.xs, enc.trace)
                 xf == Apply(n.layers[conv_final], dec.x_out)
                 b == h.patch_border.v
             IN  [out |-> sigmoid(crop(xf, b)), trace |-> dec.trace]

\* net(x): the forward method of the instance's class
forward(n, h, t) ==
    CASE n.variant = "MiniNet" -> [out |-> MiniNet_forward(n, h, t), trace |-> <<>>]
      [] n.variant = "OldNet" -> [out |-> OldNet_forward(n, h, t), trace |-> <<>>]
      [] n.variant = "SmallNet" -> [out |-> SmallNet_forward(n, h, t), trace |-> <<>>]
      [] n.variant = "SmallUNet" -> [out |-> SmallUNet_forward(n, h, t), trace |-> <<>>]
      [] n.variant = "UNet" -> UNet_forward(n, h, t)

(***************************************************************************)
(* SpecNet: a configuration made by HyperParams(...) with keyword          *)
(* arguments, networks built from it, and forward calls on batches of      *)
(* patches cut to the configured geometry.                                 *)
(***************************************************************************)
ClassLists == {[i \in 1..n |-> i - 1] : n \in 1..MaxClasses}

\* <<patch_inner, patch_border>>: the bounded ranges and the power-of-two
\* patches in use, the default 64 + 2 * 16 among them
Geometries ==
    ((1..MaxInner) \X (0..MaxBorder)) \cup ({16, 32, 64} \X {8, 16})

FilterBases == (1..MaxFilters) \cup {32}

Configured(c, cl, g, fb) ==
    [HyperParams EXCEPT !.n_channels = IntV(c),
                        !.classes = ListV(cl),
                        !.patch_inner = IntV(g[1]),
                        !.patch_border = IntV(g[2]),
                        !.filters_base = IntV(fb)]

\* the side of the patches the configuration describes
Side(h) == h.patch_inner.v + 2 * h.patch_border.v

InitNet ==
    /\ \E c \in 1..MaxChannels, cl \in ClassLists, g \in Geometries,
          fb \in FilterBases : hps = Configured(c, cl, g, fb)
    /\ net = NoNet
    /\ inp = NoShape /\ out = NoShape /\ trace = <<>>
    /\ err = "none" /\ last = Idle /\ x = Idle /\ y = NoTensor

\* V(hps) for one of the five classes
Build ==
    /\ \E n \in {MiniNet(hps), OldNet(hps), SmallNet(hps), SmallUNet(hps), UNet(hps)} :
         net' = n
    /\ inp' = NoShape /\ out' = NoShape /\ trace' = <<>>
    /\ UNCHANGED <<hps, err, last, x, y>>

\* a forward call that also advances the step counter
Forward_counting ==
    /\ net.variant # "none"
    /\ \E batch \in 1..MaxBatch :
         LET t == Shape(batch, hps.n_channels.v, Side(hps), Side(hps))
             r == forward(net, hps, t)
         IN  inp' = t /\ out' = r.out /\ trace' = r.trace
    /\ net' = [net EXCEPT !.global_step = @ + 1]
    /\ UNCHANGED <<hps, err, last, x, y>>

\* net(x) on a batch of patches of the configured geometry
Forward ==
    /\ net.variant # "none"
    /\ \E batch \in 1..MaxBatch :
         LET t == Shape(batch, hps.n_channels.v, Side(hps), Side(hps))
             r == forward(net, hps, t)
         IN  inp' = t /\ out' = r.out /\ trace' = r.trace
    /\ UNCHANGED <<net, hps, err, last, x, y>>

NextNet == Build \/ Forward

SpecNet == InitNet /\ [][NextNet]_vars

(***************************************************************************)
(* C1 (as claimed): for every variant, configuration and batch size,       *)
(* forward on an input of shape (batch, n_channels, inner + 2 border,      *)
(* inner + 2 border) returns a tensor of shape (batch, n_classes, inner,   *)
(* inner).                                                                 *)
(***************************************************************************)
C1_Claim ==
    inp.ok =>
        out = Shape(inp.s[1], n_classes(hps),
                    hps.patch_inner.v, hps.patch_inner.v)

(***************************************************************************)
(* C8: UNet construction with filters_base = b > 0 gives                   *)
(* filters[i] = b * 2^i for i = 0..4 ([32,64,128,256,512] for b = 32);     *)
(* the down pair of level i maps (n_channels if i = 0 else filters[i-1])   *)
(* -> filters[i] and filters[i] -> filters[i]; the up pair of level        *)
(* i = 1..4 maps filters[i-1] + filters[i] -> filters[i-1] and             *)
(* filters[i-1] -> filters[i-1]; level 0 has no up pair; the final 1x1     *)
(* convolution maps filters[0] -> n_classes.                               *)
(***************************************************************************)
C8_Construction ==
    net.variant = "UNet" =>
        LET b == hps.filters_base.v
            f == [i \in 0..4 |-> b * 2 ^ i]
            io(name) == <<net.layers[name].cin, net.layers[name].cout>>
        IN  /\ Len(net.filters) = 5
            /\ \A i \in 0..4 : net.filters[i + 1] = f[i]
            /\ b = 32 => net.filters = <<32, 64, 128, 256, 512>>
            /\ \A i \in 0..4 :
                 /\ io(conv_down(i, 1)) =
                        <<IF i = 0 THEN hps.n_channels.v ELSE f[i - 1], f[i]>>
                 /\ io(conv_down(i, 2)) = <<f[i], f[i]>>
            /\ \A i \in 1..4 :
                 /\ io(conv_up(i, 1)) = <<f[i - 1] + f[i], f[i - 1]>>
                 /\ io(conv_up(i, 2)) = <<f[i - 1], f[i - 1]>>
            /\ \A j \in 1..2 : conv_up(0, j) \notin DOMAIN net.layers
            /\ io(conv_final) = <<f[0], n_classes(hps)>>
            /\ net.layers[conv_final].k = 1
            /\ Cardinality(DOMAIN net.layers) = 19

\* a UNet built with the default filters_base
C8_Witness ==
    /\ net.variant = "UNet"
    /\ hps.filters_base.v = 32
    /\ net.layers[conv_up(4, 1)].cin = 768

\* the configurations that differ from h in one field other than patch_border
OtherFields(h) ==
    {[h EXCEPT ![f] = IntV(7)] : f \in (DOMAIN h) \ {"patch_border", "classes"}}
    \cup {[h EXCEPT !.classes = ListV(<<7>>)]}

(***************************************************************************)
(* C9: a forward call neither reads nor changes global_step and changes    *)
(* no field of the shared configuration; of the configuration it reads     *)
(* patch_border only: its result is the same under any step counter and    *)
(* under any change of another configuration field.                        *)
(***************************************************************************)
C9_ForwardFrame ==
    [][inp'.ok =>
        /\ net'.global_step = net.global_step
        /\ hps' = hps
        /\ \A g \in 0..MaxStep :
             forward([net' EXCEPT !.global_step = g], hps', inp')
                = [out |-> out', trace |-> trace']
        /\ \A h \in OtherFields(hps') :
             forward(net', h, inp') = [out |-> out', trace |-> trace']]_vars

\* a forward call of a UNet has returned a tensor
C9_Witness ==
    /\ net.variant = "UNet"
    /\ inp.ok /\ out.ok
    /\ net.global_step = 0

(***************************************************************************)
(* C10: what a UNet.forward call went through.  The encoder levels run in  *)
(* order 0,1,2,3,4, pooled before every level but 0; the decoder steps     *)
(* run in order 4,3,2,1; at each decoder step the upsampled tensor and     *)
(* the cached output of level i-1 have the same height and width and the   *)
(* channels of their concatenation are the input channels of the level-i   *)
(* up convolution; no step fails.                                          *)
(***************************************************************************)
UNet_ran_clean ==
    /\ out.ok
    /\ Len(trace) = 9
    /\ \A p \in 1..5 :
         /\ trace[p].phase = "down" /\ trace[p].i = p - 1
         /\ trace[p].pooled = (p # 1)
         /\ trace[p].res.ok
    /\ \A p \in 2..5 :
         trace[p].res.s[3] = trace[p - 1].res.s[3] \div 2
    /\ \A p \in 6..9 :
         LET i == 10 - p
         IN  /\ trace[p].phase = "up" /\ trace[p].i = i
             /\ trace[p].skip = trace[i].res
             /\ trace[p].up.ok /\ trace[p].skip.ok /\ trace[p].joined.ok
             /\ trace[p].up.s[3] = trace[p].skip.s[3]
             /\ trace[p].up.s[4] = trace[p].skip.s[4]
             /\ trace[p].joined.s[2] = trace[p].cin
             /\ trace[p].joined.s[2] = net.layers[conv_up(i, 1)].cin
             /\ trace[p].res.ok

=============================================================================
